---- MODULE Spec2Model ----
(***************************************************************************)
(* A model of the anerror crate (src/src/lib.rs): the error!/error_color!  *)
(* macros and the FallibleExt::fail / fail_color methods on Option and     *)
(* Result, run inside a main function wrapped by #[anerror::catch].        *)
(*                                                                         *)
(* Text is a sequence of one-character strings.  A process is a main       *)
(* function that creates and drops objects, calls the operations of the    *)
(* crate, and either returns or unwinds into the boundary interceptor.     *)
(* The interceptor (anerror_macros::catch) and the payload type            *)
(* (anerror_error::AnerrorPanic) are re-exported by lib.rs but defined in  *)
(* sibling crates; they are modelled from the specification.  A main       *)
(* without the attribute runs under the runtime's default panic hook.      *)
(***************************************************************************)
EXTENDS Integers, Sequences, FiniteSets

\* ------------------------------------------------------------- bounds

\* Longest string used as a message, a cause or a defect text.
MaxLen == 1
\* Longest format string of error!/error_color!, in tokens.
MaxFmt == 2
\* Most objects with a destructor that main creates.
MaxObjs == 2

\* ------------------------------------------------------------- text

Alphabet == {"a", "\n"}

Strings == UNION {[1..k -> Alphabet] : k \in 0..MaxLen}

IntVals == {7, -12}

DigitChars == <<"0", "1", "2", "3", "4", "5", "6", "7", "8", "9">>

RECURSIVE NatToText(_)
NatToText(n) ==
    IF n < 10 THEN <<DigitChars[n + 1]>>
    ELSE NatToText(n \div 10) \o <<DigitChars[(n % 10) + 1]>>

IntToText(n) == IF n < 0 THEN <<"-">> \o NatToText(0 - n) ELSE NatToText(n)

\* A value implementing Display: a string or an integer.
StrD(s) == [kind |-> "str", s |-> s, n |-> 0]
IntD(n) == [kind |-> "int", s |-> <<>>, n |-> n]

Displayables == {StrD(s) : s \in Strings} \cup {IntD(n) : n \in IntVals}

Display(d) == IF d.kind = "str" THEN d.s ELSE IntToText(d.n)

\* A format string is a sequence of tokens: a literal character, the
\* placeholder {} or one of the escapes {{ and }}.
FmtTokens == Alphabet \cup {"{}", "{{", "}}"}

Fmts == UNION {[1..k -> FmtTokens] : k \in 0..MaxFmt}

RECURSIVE Holes(_)
Holes(fmt) ==
    IF fmt = <<>> THEN 0
    ELSE (IF Head(fmt) = "{}" THEN 1 ELSE 0) + Holes(Tail(fmt))

\* What fills a placeholder: the empty string, a one-character string or an
\* integer.  Longer messages come from longer format strings.
FmtArgs ==
    {StrD(<<>>)} \cup {StrD(<<c>>) : c \in Alphabet} \cup {IntD(n) : n \in IntVals}

ArgsFor(fmt) == [1..Holes(fmt) -> FmtArgs]

RECURSIVE Format(_, _)
Format(fmt, args) ==
    IF fmt = <<>> THEN <<>>
    ELSE LET t == Head(fmt) IN
         IF t = "{}" THEN Display(Head(args)) \o Format(Tail(fmt), Tail(args))
         ELSE IF t = "{{" THEN <<"{">> \o Format(Tail(fmt), args)
         ELSE IF t = "}}" THEN <<"}">> \o Format(Tail(fmt), args)
         ELSE <<t>> \o Format(Tail(fmt), args)

\* "\x1b[38;5;1m\x1b[1m" and "\x1b[0m"
ColorPrefix == <<"ESC", "[", "3", "8", ";", "5", ";", "1", "m", "ESC", "[", "1", "m">>
ColorSuffix == <<"ESC", "[", "0", "m">>

\* ------------------------------------------------------------- values

Values == {1, 2}

NoD == StrD(<<>>)
NoValue == [tag |-> "-", v |-> 0, e |-> NoD]
Some(v) == [tag |-> "Some", v |-> v, e |-> NoD]
None == [tag |-> "None", v |-> 0, e |-> NoD]
Ok(v) == [tag |-> "Ok", v |-> v, e |-> NoD]
Err(e) == [tag |-> "Err", v |-> 0, e |-> e]

Options == {Some(v) : v \in Values} \cup {None}
Results == {Ok(v) : v \in Values} \cup {Err(e) : e \in Displayables}

\* Unwind payloads.
NoPayload == [kind |-> "none", text |-> <<>>]
AnerrorPanic(text) == [kind |-> "AnerrorPanic", text |-> text]
OtherPayload(text) == [kind |-> "other", text |-> text]

\* What a call does: return a value, or panic with a payload.
Return(t) == [tag |-> "return", value |-> t, payload |-> NoPayload]
PanicWith(p) == [tag |-> "panic", value |-> 0, payload |-> p]

\* ------------------------------------------------------------- lib.rs

\* error! with the body of error_color!.
error_Colored(fmt, args) ==
    PanicWith(AnerrorPanic(ColorPrefix \o Format(fmt, args) \o ColorSuffix))

error(fmt, args) == PanicWith(AnerrorPanic(Format(fmt, args)))

error_color(fmt, args) ==
    PanicWith(AnerrorPanic(ColorPrefix \o Format(fmt, args) \o ColorSuffix))

\* Option::fail with the format string of the Result impl, less its cause.
OptionFail_Separator(self, msg) ==
    IF self.tag = "Some" THEN Return(self.v)
    ELSE PanicWith(AnerrorPanic(Display(msg) \o <<":", " ">>))

OptionFail(self, msg) ==
    IF self.tag = "Some" THEN Return(self.v)
    ELSE PanicWith(AnerrorPanic(Display(msg)))

\* Option::fail_color that panics whatever the option holds.
OptionFailColor_Always(self, msg) ==
    PanicWith(AnerrorPanic(ColorPrefix \o Display(msg) \o ColorSuffix))

OptionFailColor(self, msg) ==
    IF self.tag = "Some" THEN Return(self.v)
    ELSE PanicWith(AnerrorPanic(ColorPrefix \o Display(msg) \o ColorSuffix))

\* Result::fail with the cause before the message.
ResultFail_CauseFirst(self, msg) ==
    IF self.tag = "Ok" THEN Return(self.v)
    ELSE PanicWith(AnerrorPanic(Display(self.e) \o <<":", " ">> \o Display(msg)))

\* Result::fail with the cause on a line of its own.
ResultFail_OwnLine(self, msg) ==
    IF self.tag = "Ok" THEN Return(self.v)
    ELSE PanicWith(AnerrorPanic(Display(msg) \o <<":", "\n">> \o Display(self.e)))

ResultFail(self, msg) ==
    IF self.tag = "Ok" THEN Return(self.v)
    ELSE PanicWith(AnerrorPanic(Display(msg) \o <<":", " ">> \o Display(self.e)))

\* Result::fail_color that emphasizes the message and not the cause.
ResultFailColor_MessageOnly(self, msg) ==
    IF self.tag = "Ok" THEN Return(self.v)
    ELSE PanicWith(AnerrorPanic(
             ColorPrefix \o Display(msg) \o ColorSuffix \o <<":", " ">>
                 \o Display(self.e)))

ResultFailColor(self, msg) ==
    IF self.tag = "Ok" THEN Return(self.v)
    ELSE PanicWith(AnerrorPanic(
             ColorPrefix \o Display(msg) \o <<":", " ">> \o Display(self.e)
                 \o ColorSuffix))

\* ------------------------------------------------------------- state

VARIABLES
    catch,       \* main carries #[anerror::catch]
    pc,          \* "running", "unwinding" or "exited"
    stack,       \* live objects with destructors, innermost last
    created,     \* objects created so far
    dropped,     \* destructors run so far (the side-channel counter)
    payload,     \* what the unwind in flight carries
    stderr,      \* the diagnostic stream
    exitStatus,  \* the process exit status, NoExit while it runs
    rendered,    \* how many times a Failure Signal's text was written
    unwound,     \* destructors run by unwinding (not by a scope's end)
    call,        \* the last operation main performed, with its inputs
    ret          \* the value the last fail/fail_color returned

vars == <<catch, pc, stack, created, dropped, payload, stderr, exitStatus, rendered,
          unwound, call, ret>>

NoExit == 0 - 1
ExitOk == 0
ExitFailure == 1
ExitDefect == 101

MkCall(op, fmt, args, self, msg) ==
    [op |-> op, fmt |-> fmt, args |-> args, self |-> self, msg |-> msg]

NoCall == MkCall("-", <<>>, <<>>, NoValue, NoD)

Init ==
    /\ catch \in BOOLEAN
    /\ pc = "running"
    /\ stack = <<>>
    /\ created = 0
    /\ dropped = 0
    /\ payload = NoPayload
    /\ stderr = <<>>
    /\ exitStatus = NoExit
    /\ rendered = 0
    /\ unwound = 0
    /\ call = NoCall
    /\ ret = 0

\* RUST_BACKTRACE as the panic hook reads it: unset or 0, 1, or full.
BacktraceStyles == {"off", "short", "full"}

\* What follows the message in the runtime's report.  "BACKQUOTE" is the
\* character `, and "<frames>" the numbered lines of the stack backtrace.
BacktracePart(bt) ==
    IF bt = "off"
    THEN <<"note: run with ", "BACKQUOTE", "RUST_BACKTRACE=1", "BACKQUOTE",
           " environment variable to display a backtrace", "\n">>
    ELSE IF bt = "short"
    THEN <<"stack backtrace:", "\n", "<frames>",
           "note: Some details are omitted, run with ", "BACKQUOTE",
           "RUST_BACKTRACE=full", "BACKQUOTE", " for a verbose backtrace.", "\n">>
    ELSE <<"stack backtrace:", "\n", "<frames>">>

\* The runtime's own report of a panic: the thread and the place, then the
\* payload's message when the payload is a string and "Box<dyn Any>" when it
\* is not, then the note or the backtrace.
DefaultDiagnostic(p, bt) ==
    <<"\n", "thread 'main' (", "<thread id>", ") panicked at ", "<location>",
      ":", "\n">>
        \o (IF p.kind = "AnerrorPanic" THEN <<"Box<dyn Any>">> ELSE p.text)
        \o <<"\n">> \o BacktracePart(bt)

\* The hook a process starts with.
DefaultHook(p, bt) == DefaultDiagnostic(p, bt)

\* The hook under #[anerror::catch]: silent for a Failure Signal, the default
\* hook for any other payload.
CatchHook(p, bt) == IF p.kind = "AnerrorPanic" THEN <<>> ELSE DefaultHook(p, bt)

\* What the installed panic hook writes when a panic starts.
PanicHook(p, bt) == IF catch THEN CatchHook(p, bt) ELSE DefaultHook(p, bt)

\* A panic starts: the hook runs, then the payload unwinds the stack.
BeginPanic(p) ==
    /\ pc' = "unwinding"
    /\ payload' = p
    /\ \E bt \in BacktraceStyles : stderr' = stderr \o PanicHook(p, bt)
    /\ UNCHANGED <<stack, dropped, exitStatus, rendered, unwound, ret>>

\* A raise that prints and exits on the spot (std::process::exit), with no
\* unwinding.
PanicAny_ExitNow(p) ==
    /\ pc' = "exited"
    /\ payload' = NoPayload
    /\ stderr' = stderr \o p.text \o <<"\n">>
    /\ rendered' = rendered + 1
    /\ exitStatus' = ExitFailure
    /\ UNCHANGED <<stack, dropped, unwound, ret>>

\* A raise that prints and lets the computation go on.
PanicAny_Continue(p) ==
    /\ pc' = pc
    /\ payload' = NoPayload
    /\ stderr' = stderr \o p.text \o <<"\n">>
    /\ rendered' = rendered + 1
    /\ UNCHANGED <<stack, dropped, exitStatus, unwound, ret>>

\* A raise that prints the message itself before it unwinds.
PanicAny_ReportFirst(p) ==
    /\ pc' = "unwinding"
    /\ payload' = p
    /\ stderr' = stderr \o p.text \o <<"\n">>
    /\ rendered' = rendered + 1
    /\ UNCHANGED <<stack, dropped, exitStatus, unwound, ret>>

\* std::panic::panic_any(p).
PanicAny(p) == BeginPanic(p)

\* The effect of a call's outcome on the process.
Apply(outcome) ==
    IF outcome.tag = "return"
    THEN /\ ret' = outcome.value
         /\ UNCHANGED <<pc, stack, dropped, payload, stderr, exitStatus, rendered,
                      unwound>>
    ELSE PanicAny(outcome.payload)

CallError ==
    /\ pc = "running"
    /\ \E fmt \in Fmts : \E args \in ArgsFor(fmt) :
          /\ call' = MkCall("error", fmt, args, NoValue, NoD)
          /\ Apply(error(fmt, args))
    /\ UNCHANGED <<catch, created>>

CallErrorColor ==
    /\ pc = "running"
    /\ \E fmt \in Fmts : \E args \in ArgsFor(fmt) :
          /\ call' = MkCall("error_color", fmt, args, NoValue, NoD)
          /\ Apply(error_color(fmt, args))
    /\ UNCHANGED <<catch, created>>

CallOptionFail ==
    /\ pc = "running"
    /\ \E self \in Options : \E msg \in Displayables :
          /\ call' = MkCall("Option::fail", <<>>, <<>>, self, msg)
          /\ Apply(OptionFail(self, msg))
    /\ UNCHANGED <<catch, created>>

CallOptionFailColor ==
    /\ pc = "running"
    /\ \E self \in Options : \E msg \in Displayables :
          /\ call' = MkCall("Option::fail_color", <<>>, <<>>, self, msg)
          /\ Apply(OptionFailColor(self, msg))
    /\ UNCHANGED <<catch, created>>

CallResultFail ==
    /\ pc = "running"
    /\ \E self \in Results : \E msg \in Displayables :
          /\ call' = MkCall("Result::fail", <<>>, <<>>, self, msg)
          /\ Apply(ResultFail(self, msg))
    /\ UNCHANGED <<catch, created>>

CallResultFailColor ==
    /\ pc = "running"
    /\ \E self \in Results : \E msg \in Displayables :
          /\ call' = MkCall("Result::fail_color", <<>>, <<>>, self, msg)
          /\ Apply(ResultFailColor(self, msg))
    /\ UNCHANGED <<catch, created>>

\* unwrap, expect, an out-of-range index: a panic whose payload is not an
\* AnerrorPanic.
Defect ==
    /\ pc = "running"
    /\ \E text \in Strings :
          /\ call' = MkCall("defect", <<>>, <<>>, NoValue, StrD(text))
          /\ BeginPanic(OtherPayload(text))
    /\ UNCHANGED <<catch, created>>

\* main creates an object that has a destructor.
NewObject ==
    /\ pc = "running"
    /\ created < MaxObjs
    /\ created' = created + 1
    /\ stack' = Append(stack, created + 1)
    /\ UNCHANGED <<catch, pc, dropped, payload, stderr, exitStatus, rendered,
                   unwound, call, ret>>

\* The innermost object goes out of scope.
DropObject ==
    /\ pc = "running"
    /\ stack # <<>>
    /\ stack' = SubSeq(stack, 1, Len(stack) - 1)
    /\ dropped' = dropped + 1
    /\ UNCHANGED <<catch, pc, created, payload, stderr, exitStatus, rendered,
                   unwound, call, ret>>

\* Unwinding runs the destructor of the innermost live object.
Unwind ==
    /\ pc = "unwinding"
    /\ stack # <<>>
    /\ stack' = SubSeq(stack, 1, Len(stack) - 1)
    /\ dropped' = dropped + 1
    /\ unwound' = unwound + 1
    /\ UNCHANGED <<catch, pc, created, payload, stderr, exitStatus, rendered,
                   call, ret>>

\* An interceptor that takes every payload for a Failure Signal.
Intercept_AllClassified ==
    /\ catch
    /\ pc = "unwinding"
    /\ stack = <<>>
    /\ stderr' = stderr \o payload.text \o <<"\n">>
    /\ rendered' = rendered + 1
    /\ exitStatus' = ExitFailure
    /\ payload' = NoPayload
    /\ pc' = "exited"
    /\ UNCHANGED <<catch, stack, created, dropped, unwound, call, ret>>

\* #[anerror::catch]: the unwind has reached the outermost frame.  A Failure
\* Signal is printed; any other payload was reported by the hook when the
\* panic started, and only the exit status is left to set.
Intercept ==
    /\ catch
    /\ pc = "unwinding"
    /\ stack = <<>>
    /\ IF payload.kind = "AnerrorPanic"
       THEN /\ stderr' = stderr \o payload.text \o <<"\n">>
            /\ rendered' = rendered + 1
            /\ exitStatus' = ExitFailure
       ELSE /\ stderr' = stderr
            /\ rendered' = rendered
            /\ exitStatus' = ExitDefect
    /\ payload' = NoPayload
    /\ pc' = "exited"
    /\ UNCHANGED <<catch, stack, created, dropped, unwound, call, ret>>

\* A main without the attribute: the runtime ends the process once the unwind
\* has left main; the hook has reported the panic already.
Uncaught ==
    /\ ~catch
    /\ pc = "unwinding"
    /\ stack = <<>>
    /\ exitStatus' = ExitDefect
    /\ payload' = NoPayload
    /\ pc' = "exited"
    /\ UNCHANGED <<catch, stack, created, dropped, stderr, rendered, unwound, call,
                   ret>>

\* main returns: its remaining objects are dropped and the process exits.
ReturnNormally ==
    /\ pc = "running"
    /\ call' = MkCall("return", <<>>, <<>>, NoValue, NoD)
    /\ dropped' = dropped + Len(stack)
    /\ stack' = <<>>
    /\ exitStatus' = ExitOk
    /\ pc' = "exited"
    /\ UNCHANGED <<catch, created, payload, stderr, rendered, unwound, ret>>

\* The steps of a process whose main carries #[anerror::catch].
NextCatch ==
    \/ CallError
    \/ CallErrorColor
    \/ CallOptionFail
    \/ CallOptionFailColor
    \/ CallResultFail
    \/ CallResultFailColor
    \/ Defect
    \/ NewObject
    \/ DropObject
    \/ Unwind
    \/ Intercept
    \/ ReturnNormally

Next == NextCatch \/ Uncaught

Spec == Init /\ [][Next]_vars

InitCatch == Init /\ catch = TRUE

\* A process whose main carries #[anerror::catch].  An unwind in flight keeps
\* running destructors, and the interceptor runs once the unwind reaches it;
\* main itself is under no obligation to go on.
FairSpec ==
    /\ InitCatch
    /\ [][NextCatch]_vars
    /\ WF_vars(Unwind)
    /\ WF_vars(Intercept)

\* ------------------------------------------------------------- properties

Done == pc = "exited"

OptionOps == {"Option::fail", "Option::fail_color"}
ResultOps == {"Result::fail", "Result::fail_color"}

\* The call is one of the Raise family on an input that makes it raise.
Raising(c) ==
    \/ c.op \in {"error", "error_color"}
    \/ c.op \in OptionOps /\ c.self.tag = "None"
    \/ c.op \in ResultOps /\ c.self.tag = "Err"

\* The call is fail or fail_color on a present or a success value.
Present(c) ==
    \/ c.op \in OptionOps /\ c.self.tag = "Some"
    \/ c.op \in ResultOps /\ c.self.tag = "Ok"

RECURSIVE Newlines(_)
Newlines(s) ==
    IF s = <<>> THEN 0
    ELSE (IF Head(s) = "\n" THEN 1 ELSE 0) + Newlines(Tail(s))

RECURSIVE ArgNewlines(_)
ArgNewlines(args) ==
    IF args = <<>> THEN 0
    ELSE Newlines(Display(Head(args))) + ArgNewlines(Tail(args))

\* The line breaks in the texts a call was given.
InputNewlines(c) ==
    Newlines(c.fmt) + ArgNewlines(c.args) + Newlines(Display(c.msg))
        + Newlines(Display(c.self.e))

\* The format string holds literal characters only.
Literal(fmt) == \A i \in 1..Len(fmt) : fmt[i] \in Alphabet

\* C1: error! with a message that formats to a non-empty text m carries
\* exactly m while it unwinds, and under #[anerror::catch] the process ends
\* with m and one newline on the diagnostic stream and exit status 1.
C1_RaiseVerbatim ==
    (call.op = "error" /\ Format(call.fmt, call.args) # <<>>) =>
        /\ pc # "running"
        /\ pc = "unwinding" => payload = AnerrorPanic(Format(call.fmt, call.args))
        /\ (catch /\ Done) =>
              /\ stderr = Format(call.fmt, call.args) \o <<"\n">>
              /\ exitStatus = 1
              /\ Literal(call.fmt) => stderr = call.fmt \o <<"\n">>
              /\ (call.fmt = <<"{}">> /\ call.args[1].kind = "str") =>
                     stderr = call.args[1].s \o <<"\n">>

C1_Witness ==
    /\ catch
    /\ Done
    /\ call.op = "error"
    /\ call.fmt = <<"a", "{}">>
    /\ call.args = <<IntD(-12)>>
    /\ stderr = <<"a", "-", "1", "2", "\n">>
    /\ exitStatus = 1

\* C2: Result::fail on failure(e) with message m carries m, then ": ", then
\* display(e), also for the empty m, and under #[anerror::catch] ends with that
\* text and a newline on the diagnostic stream and exit status 1; on success(v) it returns v, raises
\* nothing and writes nothing.
C2_ResultFail ==
    /\ (call.op = "Result::fail" /\ call.self.tag = "Err") =>
          LET text == Display(call.msg) \o <<":", " ">> \o Display(call.self.e) IN
          /\ pc # "running"
          /\ pc = "unwinding" => payload = AnerrorPanic(text)
          /\ (catch /\ Done) => (stderr = text \o <<"\n">> /\ exitStatus = 1)
          /\ (catch /\ Done /\ call.msg = StrD(<<>>) /\ call.self.e.kind = "str") =>
                 stderr = <<":", " ">> \o call.self.e.s \o <<"\n">>
    /\ (call.op = "Result::fail" /\ call.self.tag = "Ok") =>
          /\ pc = "running"
          /\ ret = call.self.v
          /\ payload = NoPayload
          /\ stderr = <<>>

C2_Witness ==
    /\ catch
    /\ Done
    /\ call.op = "Result::fail"
    /\ call.msg = StrD(<<>>)
    /\ call.self = Err(IntD(-12))
    /\ stderr = <<":", " ", "-", "1", "2", "\n">>
    /\ exitStatus = 1

\* C3: Option::fail on an absent value with message m does what error!("{}", m)
\* does: it carries the same payload, never returns, and under
\* #[anerror::catch] ends with display(m) and a newline on the diagnostic
\* stream and exit status 1; on present(v) it
\* returns v with no unwind and no output.
C3_OptionFail ==
    /\ (call.op = "Option::fail" /\ call.self.tag = "None") =>
          /\ pc # "running"
          /\ pc = "unwinding" => payload = error(<<"{}">>, <<call.msg>>).payload
          /\ (catch /\ Done) =>
                 (stderr = Display(call.msg) \o <<"\n">> /\ exitStatus = 1)
    /\ (call.op = "Option::fail" /\ call.self.tag = "Some") =>
          /\ pc = "running"
          /\ ret = call.self.v
          /\ payload = NoPayload
          /\ stderr = <<>>

C3_Witness ==
    /\ catch
    /\ Done
    /\ call.op = "Option::fail"
    /\ call.self = None
    /\ call.msg = StrD(<<"a">>)
    /\ stderr = <<"a", "\n">>
    /\ exitStatus = 1
    /\ ret \in Values

EmphasisPrefix ==
    <<"ESC", "[", "3", "8", ";", "5", ";", "1", "m", "ESC", "[", "1", "m">>
EmphasisSuffix == <<"ESC", "[", "0", "m">>

\* The text the plain operation carries on the inputs of an emphasized call.
PlainText(c) ==
    IF c.op = "error_color" THEN error(c.fmt, c.args).payload.text
    ELSE IF c.op = "Option::fail_color" THEN OptionFail(c.self, c.msg).payload.text
    ELSE ResultFail(c.self, c.msg).payload.text

\* C4: error_color!, Option::fail_color on an absent value and
\* Result::fail_color on a failure carry the text of the plain operation
\* wrapped once in ESC[38;5;1m ESC[1m and ESC[0m (for Result the whole
\* "m: e"), and under #[anerror::catch] end with that and a newline on the
\* diagnostic stream and exit status 1.
C4_Emphasized ==
    (Raising(call) /\ call.op \in {"error_color", "Option::fail_color",
                                   "Result::fail_color"}) =>
        LET text == EmphasisPrefix \o PlainText(call) \o EmphasisSuffix IN
        /\ pc # "running"
        /\ pc = "unwinding" => payload = AnerrorPanic(text)
        /\ (catch /\ Done) => (stderr = text \o <<"\n">> /\ exitStatus = 1)

C4_Witness ==
    /\ catch
    /\ Done
    /\ call.op = "Result::fail_color"
    /\ call.msg = StrD(<<"a">>)
    /\ call.self = Err(IntD(7))
    /\ stderr = EmphasisPrefix \o <<"a", ":", " ", "7">> \o EmphasisSuffix
                    \o <<"\n">>
    /\ exitStatus = 1

\* C5: under #[anerror::catch], a panic whose payload is not a Failure Signal
\* has the runtime's default diagnostic (with the note or the backtrace
\* RUST_BACKTRACE asks for) on the diagnostic stream from the moment it starts, the interceptor adds nothing in the one-line format of a
\* classified failure, and the process ends with exit status 101.
C5_Defect ==
    (catch /\ call.op = "defect") =>
        /\ pc # "running"
        /\ \E bt \in BacktraceStyles :
               stderr = DefaultDiagnostic(OtherPayload(call.msg.s), bt)
        /\ stderr # call.msg.s \o <<"\n">>
        /\ rendered = 0
        /\ Done => exitStatus = 101

C5_Witness ==
    /\ catch
    /\ Done
    /\ call.op = "defect"
    /\ call.msg = StrD(<<"a">>)
    /\ exitStatus = 101
    /\ unwound = 1

\* C6: a process whose main returned, every fail and fail_color having been
\* applied to a present or a success value, ends with exit status 0 and an
\* empty diagnostic stream.
C6_NormalReturn ==
    /\ (Done /\ ~Raising(call) /\ call.op # "defect") =>
          (call.op = "return" /\ exitStatus = 0 /\ stderr = <<>>)
    /\ pc = "running" => (stderr = <<>> /\ exitStatus = NoExit)
    /\ exitStatus = 0 => (Done /\ call.op = "return")

C6_Witness ==
    /\ catch
    /\ Done
    /\ call.op = "return"
    /\ ret \in Values
    /\ created = 1
    /\ exitStatus = 0
    /\ stderr = <<>>

\* C7: under #[anerror::catch], once a Failure Signal was raised, nothing is
\* on the diagnostic stream and the process has not exited while an object
\* created before the raise is still live: every destructor has run before the
\* line is written.
C7_CleanupFirst ==
    (catch /\ Raising(call) /\ (stderr # <<>> \/ exitStatus # NoExit)) =>
        (stack = <<>> /\ dropped = created)

C7_Witness ==
    /\ catch
    /\ Done
    /\ Raising(call)
    /\ created = 2
    /\ unwound = 2
    /\ stderr # <<>>
    /\ exitStatus = 1

\* C8 as stated: under #[anerror::catch], the output of a classified failure
\* holds one line break, the one that ends it, whatever the message.
C8_OneLineBreak ==
    (catch /\ Done /\ Raising(call)) =>
        (Newlines(stderr) = 1 /\ stderr[Len(stderr)] = "\n")

\* C8, amended: under #[anerror::catch], a classified failure is written once,
\* and its output ends with a newline and holds no line break besides that one
\* and those of the texts the raise was given.
C8_OneWrite ==
    (catch /\ Done /\ Raising(call)) =>
        /\ rendered = 1
        /\ stderr[Len(stderr)] = "\n"
        /\ Newlines(stderr) = InputNewlines(call) + 1
        /\ InputNewlines(call) = 0 => Newlines(stderr) = 1

C8_Witness ==
    /\ catch
    /\ Done
    /\ call.op = "Result::fail"
    /\ call.msg = StrD(<<"\n">>)
    /\ call.self = Err(StrD(<<"a">>))
    /\ stderr = <<"\n", ":", " ", "a", "\n">>

\* C9: once an operation of the Raise family has raised, the computation does
\* not run again (no further call, no value returned), the unwind only goes on
\* or ends in the exit, an exited process stays exited, and under
\* #[anerror::catch] the process eventually exits with status 1.
C9_Fatal ==
    /\ [](Raising(call) => pc # "running")
    /\ [][Raising(call) => (call' = call /\ ret' = ret /\ created' = created)]_vars
    /\ [][pc = "unwinding" => pc' \in {"unwinding", "exited"}]_vars
    /\ [][Done => UNCHANGED vars]_vars
    /\ ((catch /\ Raising(call)) ~> (Done /\ exitStatus = 1))

C9_Witness ==
    /\ catch
    /\ Done
    /\ Raising(call)
    /\ call.op = "Option::fail_color"
    /\ ret \in Values
    /\ unwound = 1
    /\ exitStatus = 1

\* C10: a Failure Signal is held by the unwind alone and written at most once:
\* under #[anerror::catch] nothing was written while it is in flight, once the
\* process has exited it is gone and was written exactly once, and nothing
\* runs after the exit.
C10_OneShot ==
    /\ rendered <= 1
    /\ payload.kind = "AnerrorPanic" => (pc = "unwinding" /\ rendered = 0)
    /\ (catch /\ payload.kind = "AnerrorPanic") => stderr = <<>>
    /\ Done => (payload = NoPayload /\ ~ENABLED Next)
    /\ (catch /\ Done /\ Raising(call)) => rendered = 1

C10_Witness ==
    /\ catch
    /\ Done
    /\ call.op = "error"
    /\ call.fmt = <<"a", "a">>
    /\ rendered = 1
    /\ payload = NoPayload
    /\ stderr = <<"a", "a", "\n">>

====
